---- MODULE Spec2Model ----
(***************************************************************************)
(* A model of the more_emo Flask backend (src/more_emo/app.py and          *)
(* src/more_emo/db_helper.py): the request handlers as actions over the    *)
(* tables they read and write, the global service instances, and the       *)
(* helper functions they call.                                             *)
(*                                                                         *)
(* Every handler is one action: it reads the request (drawn from a small   *)
(* set), the outcome of each external call it makes (model inference,      *)
(* translation, ffmpeg, the speech SDK: drawn nondeterministically), and   *)
(* the tables; it writes the tables and the response.  `req` holds the     *)
(* request being answered together with the outcomes of the external       *)
(* calls made for it, `resp` the (HTTP status, JSON body) the handler      *)
(* returned.                                                               *)
(***************************************************************************)
EXTENDS Integers, Sequences, FiniteSets, TLC

VARIABLES
    phase,              \* "boot" | "running" | "failed": the __main__ block
    emotion_engine,     \* app.py globals: None or "ready"
    blenderbot_model,
    chat_engine,
    speech_client,      \* speech_service.client is set
    treehole_posts,     \* id -> [content, comment_count]
    treehole_comments,  \* sequence of rows [post_id, anonymous_name, content]
    books,              \* book_db.books: row i has AUTO_INCREMENT id i
    user_favorites,     \* set of rows <<user_id, book_id>>
    favorites_before,   \* history: user_favorites before each of the last two
                        \* favorite requests, with the request
    today,              \* CURDATE() / datetime.date.today(), as a day number
    mood_checkins,      \* set of rows of `Mood Check-In`.mood_checkins
    breath_trainings,   \* set of rows of `Mood Check-In`.breath_trainings
    checkins_before,    \* history: the two tables before the last request
    login,              \* rows of test.login, in insertion order
    login_before,       \* history: login before the last register request
    streak_input,       \* the list a call of calc_continuous_days is given
    streak_result,      \* what the call returned
    req,                \* the request last handled
    resp,               \* the response to it
    max_history,        \* ConversationManager.max_history
    session_id,         \* ConversationManager.session_id
    history,            \* ConversationManager.history
    turn_count,         \* ConversationManager.state['turn_count']
    emotion_trend,      \* ConversationManager.state['emotion_trend']
    exchanges_added,    \* history: the exchanges added since __init__ or reset
    tasks,              \* preprocess.py: the task list of one split
    started,            \* how many tasks the pool has handed to workers
    completed,          \* task indices in the order their workers finished
    results,            \* task index -> what its worker returned
    saved,              \* the three arrays np.save wrote for the split
    invocation,         \* the operation last invoked and what it met
    attempts,           \* the external steps it attempted, in order
    op_result           \* what it returned, "raise" when it raised

vars == <<phase, emotion_engine, blenderbot_model, chat_engine, speech_client,
          treehole_posts, treehole_comments, books, user_favorites,
          favorites_before, today, mood_checkins, breath_trainings,
          checkins_before, login, login_before, streak_input, streak_result,
          req, resp, max_history, session_id, history, turn_count, emotion_trend,
          exchanges_added, tasks, started, completed, results, saved,
          invocation, attempts, op_result>>

serviceVars == <<phase, emotion_engine, blenderbot_model, chat_engine,
                 speech_client>>
treeholeVars == <<treehole_posts, treehole_comments>>
bookVars == <<books, user_favorites, favorites_before>>
moodVars == <<today, mood_checkins, breath_trainings, checkins_before>>
loginVars == <<login, login_before>>
streakVars == <<streak_input, streak_result>>
convVars == <<max_history, session_id, history, turn_count, emotion_trend,
              exchanges_added>>
preprocessVars == <<tasks, started, completed, results, saved>>
stepVars == <<invocation, attempts, op_result>>
libraryVars == <<convVars, preprocessVars, stepVars>>
appVars == <<serviceVars, treeholeVars, bookVars, moodVars, loginVars,
             streakVars, req, resp>>

None == "None"

----------------------------------------------------------------------------
(* Bounds of the model. *)

MaxTextLen == 1
MaxPosts == 2
MaxComments == 2
MaxBooks == 2
MaxDay == 1
MaxTotal == 2
MaxLogins == 3
MaxDates == 3
MaxHistory == 2
MaxTurns == 3
MaxTasks == 3

----------------------------------------------------------------------------
(* Text: a string is a sequence of characters; " " is whitespace. *)

Chars == {" ", "a"}

Texts == UNION {[1..n -> Chars] : n \in 0..MaxTextLen}

RECURSIVE lstrip(_)
lstrip(s) == IF s # <<>> /\ Head(s) = " " THEN lstrip(Tail(s)) ELSE s

RECURSIVE rstrip(_)
rstrip(s) ==
    IF s # <<>> /\ s[Len(s)] = " " THEN rstrip(SubSeq(s, 1, Len(s) - 1)) ELSE s

strip(s) == rstrip(lstrip(s))

(* JSON values of a request body: null, a string, an integer. *)
JsonNull == [null |-> TRUE]
JsonStr(s) == [str |-> s]
JsonInt(n) == [int |-> n]

IsNull(v) == "null" \in DOMAIN v
IsStr(v) == "str" \in DOMAIN v
IsInt(v) == "int" \in DOMAIN v

(* Python truthiness: `not v` for None, "" and 0. *)
Falsy(v) ==
    \/ IsNull(v)
    \/ IsStr(v) /\ v.str = <<>>
    \/ IsInt(v) /\ v.int = 0

(* dict.get: the field's value, or None when the body lacks the field. *)
JsonTexts == {JsonNull} \cup {JsonStr(t) : t \in Texts}

(* A response: flask's (jsonify(body), status); status 200 when omitted. *)
Response(route, http, body) == [route |-> route, http |-> http, body |-> body]

NoRequest == [route |-> None]
NoResponse == [route |-> None, http |-> 0, body |-> [none |-> TRUE]]

----------------------------------------------------------------------------
(* Service initialisation: init_services and the __main__ block.           *)

(* The step of init_services that fails: "none" when every step succeeds.  *)
InitFailures == {"emotion_model", "blenderbot", "cv_engine", "speech", "none"}

(* init_services assigns the globals in order and returns False at the     *)
(* first failing step; chat_engine is not among the globals it declares    *)
(* or assigns.  app.run is reached only when it returns True.              *)
init_services(fail_at) ==
    /\ phase = "boot"
    /\ emotion_engine' = IF fail_at = "emotion_model" THEN None ELSE "ready"
    /\ blenderbot_model' =
          IF fail_at \in {"emotion_model", "blenderbot"} THEN None ELSE "ready"
    /\ chat_engine' = chat_engine
    /\ speech_client' = speech_client
    /\ phase' = IF fail_at = "none" THEN "running" ELSE "failed"
    /\ UNCHANGED <<libraryVars, treeholeVars, bookVars, moodVars, loginVars, streakVars, req, resp>>

----------------------------------------------------------------------------
(* POST /chat/reply *)

Emotions == {"joy", "sadness", "neutral", "sad"}

(* EMOTION_MAP_CN.get(emotion, emotion): the mapped label, or the key. *)
EMOTION_MAP_CN(emotion) ==
    IF emotion \in {"joy", "sadness", "neutral"} THEN <<"cn", emotion>>
    ELSE <<"raw", emotion>>

(* A JSON object body carrying any of the fields msg and message. *)
ChatBodies == UNION {[K -> Texts] : K \in SUBSET {"msg", "message"}}

(* Outcomes of the external calls of one chat request: the emotion the     *)
(* engine returns, whether generation raises, whether the reply is         *)
(* translated.                                                             *)
ChatEnvs == [emotion : Emotions, generate : {"ok", "raise"},
             translated : BOOLEAN]

(* The body of chat(): the response for JSON body `data` under `env`. *)
chat_response(data, env) ==
    IF emotion_engine = None \/ blenderbot_model = None
    THEN Response("/chat/reply", 503, [success |-> FALSE, error |-> "not_initialised"])
    ELSE IF data = <<>> \/ "msg" \notin DOMAIN data
    THEN Response("/chat/reply", 400, [success |-> FALSE, error |-> "missing_msg"])
    ELSE IF strip(data["msg"]) = <<>>
    THEN Response("/chat/reply", 400, [success |-> FALSE, error |-> "empty_msg"])
    ELSE IF env.generate = "raise"
    THEN Response("/chat/reply", 500, [success |-> FALSE, error |-> "exception"])
    ELSE Response("/chat/reply", 200,
                  [success |-> TRUE,
                   reply |-> IF env.translated THEN "reply_cn" ELSE "reply_en",
                   emotion |-> EMOTION_MAP_CN(env.emotion),
                   emotion_en |-> env.emotion])

chat(data, env) ==
    /\ phase = "running"
    /\ req' = [route |-> "/chat/reply", data |-> data, env |-> env]
    /\ resp' = chat_response(data, env)
    /\ UNCHANGED <<libraryVars, serviceVars, treeholeVars, bookVars, moodVars, loginVars, streakVars>>

----------------------------------------------------------------------------
(* POST /api/analyze_voice and SpeechService *)

(* What one voice request meets: the upload, the saved temp file, ffmpeg,  *)
(* the two conversion methods, the PCM output and the SDK stream.  A stage *)
(* that is not reached keeps its first value.                              *)
VoiceEnvsAll ==
    [has_file : BOOLEAN, exists : BOOLEAN, readable : BOOLEAN,
     installed : BOOLEAN, method1 : {"ok", "fail", "import_error"},
     method2 : {"ok", "fail", "timeout"}, pcm : {"data", "empty", "missing"},
     stream : {"text", "silence", "raise"}]

VoiceEnvs ==
    {e \in VoiceEnvsAll :
        /\ (~e.has_file => e.exists)
        /\ (~e.exists => e.readable)
        /\ (~e.readable => e.installed)
        /\ (~e.installed => e.method1 = "ok")
        /\ (e.method1 = "import_error" => e.method2 = "ok")
        /\ (e.method2 # "ok" => e.pcm = "data")
        /\ (e.pcm # "data" => e.stream = "text")}

(* convert_audio_with_ffmpeg_python: "raise" or "pcm_data".  A failure of  *)
(* method 1 other than ImportError is swallowed and method 2 runs; method  *)
(* 2 runs after a successful method 1 as well.                             *)
convert_audio_with_ffmpeg_python(e) ==
    IF ~e.installed THEN "raise"
    ELSE IF ~e.exists THEN "raise"
    ELSE IF e.method1 = "import_error" THEN "raise"
    ELSE IF e.method2 # "ok" THEN "raise"
    ELSE IF e.pcm # "data" THEN "raise"
    ELSE "pcm_data"

(* SpeechService.recognize: "raise", or the string it returns. *)
recognize(e) ==
    IF ~speech_client THEN "raise"
    ELSE IF ~e.exists THEN "file_missing_message"
    ELSE IF ~e.readable THEN "file_unreadable_message"
    ELSE IF convert_audio_with_ffmpeg_python(e) = "raise"
    THEN "convert_failed_message"
    ELSE IF e.stream = "raise" THEN "recognize_failed_message"
    ELSE IF e.stream = "silence" THEN "no_speech_message"
    ELSE "recognized_text"

analyze_voice_response(e) ==
    IF ~e.has_file
    THEN Response("/api/analyze_voice", 400, [code |-> 400, msg |-> "no_file"])
    ELSE IF recognize(e) = "raise"
    THEN Response("/api/analyze_voice", 500, [code |-> 500, msg |-> "exception"])
    ELSE Response("/api/analyze_voice", 200, [code |-> 200, text |-> recognize(e)])

analyze_voice(e) ==
    /\ phase = "running"
    /\ req' = [route |-> "/api/analyze_voice", env |-> e]
    /\ resp' = analyze_voice_response(e)
    /\ UNCHANGED <<libraryVars, serviceVars, treeholeVars, bookVars, moodVars, loginVars, streakVars>>

----------------------------------------------------------------------------
(* Tree hole: posts and comments *)

AI_NAME == "AI_healing_assistant"
ANONYMOUS == "anonymous_user"
DEFAULT_AI_REPLY == "default_reply"

(* post_id values a request can carry; 0 and None are falsy.               *)
PostIds == {JsonNull} \cup {JsonInt(n) : n \in 0..MaxPosts}

(* SELECT ... FROM treehole_posts WHERE id = %s returns a row. *)
PostExists(post_id) == IsInt(post_id) /\ post_id.int \in 1..Len(treehole_posts)

(* UPDATE treehole_posts SET comment_count = comment_count + 1 WHERE id = *)
IncrementCommentCount(post_id) ==
    [i \in 1..Len(treehole_posts) |->
        IF IsInt(post_id) /\ i = post_id.int
        THEN [treehole_posts[i] EXCEPT !.comment_count = @ + 1]
        ELSE treehole_posts[i]]

create_post(content) ==
    /\ phase = "running"
    /\ Len(treehole_posts) < MaxPosts
    /\ req' = [route |-> "/api/posts/create", content |-> content]
    /\ IF Falsy(content)
       THEN /\ resp' = Response("/api/posts/create", 400, [code |-> 400])
            /\ UNCHANGED treehole_posts
       ELSE /\ treehole_posts' =
                  Append(treehole_posts, [content |-> content, comment_count |-> 0])
            /\ resp' = Response("/api/posts/create", 200, [code |-> 200])
    /\ UNCHANGED <<libraryVars, serviceVars, treehole_comments, bookVars, moodVars, loginVars, streakVars>>

create_comment(post_id, content) ==
    /\ phase = "running"
    /\ Len(treehole_comments) < MaxComments
    /\ req' = [route |-> "/api/comments/create", post_id |-> post_id,
               content |-> content]
    /\ IF Falsy(post_id) \/ Falsy(content)
       THEN /\ resp' = Response("/api/comments/create", 400, [code |-> 400])
            /\ UNCHANGED <<treehole_posts, treehole_comments>>
       ELSE /\ treehole_comments' =
                  Append(treehole_comments,
                         [post_id |-> post_id, anonymous_name |-> ANONYMOUS,
                          content |-> "user_comment"])
            /\ treehole_posts' = IncrementCommentCount(post_id)
            /\ resp' = Response("/api/comments/create", 200, [code |-> 200])
    /\ UNCHANGED <<libraryVars, serviceVars, bookVars, moodVars, loginVars, streakVars>>

(* chat_engine.chat(ai_prompt).get('response', default): calling .chat on  *)
(* None raises AttributeError, which the handler's except reports as 500.  *)
auto_comment_post(post_id, has_response) ==
    /\ phase = "running"
    /\ Len(treehole_comments) < MaxComments
    /\ req' = [route |-> "/api/posts/auto_comment", post_id |-> post_id]
    /\ IF Falsy(post_id)
       THEN /\ resp' = Response("/api/posts/auto_comment", 400, [code |-> 400])
            /\ UNCHANGED <<treehole_posts, treehole_comments>>
       ELSE IF ~PostExists(post_id)
       THEN /\ resp' = Response("/api/posts/auto_comment", 404, [code |-> 404])
            /\ UNCHANGED <<treehole_posts, treehole_comments>>
       ELSE IF chat_engine = None
       THEN /\ resp' = Response("/api/posts/auto_comment", 500,
                                [code |-> 500, msg |-> "AttributeError"])
            /\ UNCHANGED <<treehole_posts, treehole_comments>>
       ELSE LET ai_reply == IF has_response THEN "ai_reply" ELSE DEFAULT_AI_REPLY
            IN /\ treehole_comments' =
                     Append(treehole_comments,
                            [post_id |-> post_id, anonymous_name |-> AI_NAME,
                             content |-> ai_reply])
               /\ treehole_posts' = IncrementCommentCount(post_id)
               /\ resp' = Response("/api/posts/auto_comment", 200,
                                   [code |-> 200, data |-> [content |-> ai_reply]])
    /\ UNCHANGED <<libraryVars, serviceVars, bookVars, moodVars, loginVars, streakVars>>

----------------------------------------------------------------------------
(* Book catalogue: BookDB and the /api/books and /api/admin/books routes.  *)

(* DBHelper.query as the class ends up defining it (the second definition  *)
(* replaces the first): a SELECT returns the rows, any other statement is  *)
(* committed and returns cursor.rowcount.  For a one-row INSERT that is 1. *)
INSERT_ROWCOUNT == 1

BookTitles == {"t1", "t2"}
RequiredBookFields == {"title", "author", "category"}

(* The JSON body of an add request: any of the required fields, a title.   *)
AddBookBodies ==
    UNION {[K -> BookTitles] : K \in SUBSET RequiredBookFields}

BookIds == {JsonNull} \cup {JsonInt(n) : n \in 0..(MaxBooks + 1)}

(* BookDB.add_book: INSERT INTO books, and the value it returns, which is  *)
(* what self.db.query returns for the INSERT: the row count, 1.            *)
add_book_insert(book_data) ==
    Append(books, [title |-> book_data["title"], author |-> book_data["author"],
                   category |-> book_data["category"]])

add_book_returns == INSERT_ROWCOUNT

(* The first required field the body lacks, in the handler's order. *)
FirstMissingField(data) ==
    IF "title" \notin DOMAIN data THEN "title"
    ELSE IF "author" \notin DOMAIN data THEN "author"
    ELSE IF "category" \notin DOMAIN data THEN "category"
    ELSE None

add_book(data) ==
    /\ phase = "running"
    /\ Len(books) < MaxBooks
    /\ req' = [route |-> "/api/admin/books/add", data |-> data]
    /\ IF FirstMissingField(data) # None
       THEN /\ resp' = Response("/api/admin/books/add", 400,
                                [success |-> FALSE, missing |-> FirstMissingField(data)])
            /\ UNCHANGED books
       ELSE /\ books' = add_book_insert(data)
            /\ resp' = Response("/api/admin/books/add", 200,
                                [success |-> TRUE, data |-> [id |-> add_book_returns]])
    /\ UNCHANGED <<libraryVars, serviceVars, treeholeVars, user_favorites, favorites_before,
                   moodVars, loginVars, streakVars>>

(* BookDB.get_book_by_id: the row with that id, or None. *)
get_book_by_id(book_id) ==
    IF IsInt(book_id) /\ book_id.int \in 1..Len(books)
    THEN [id |-> book_id.int, book |-> books[book_id.int]]
    ELSE [id |-> 0]

BookFound(book) == book.id # 0

(* get_book_detail's return statement is                                   *)
(*     return jsonify(ok) if book else jsonify(not_found), 404             *)
(* a tuple whose first element is the conditional expression and whose     *)
(* second is 404: the HTTP status is 404 on both branches.                 *)
get_book_detail_response(book_id) ==
    IF Falsy(book_id)
    THEN Response("/api/books/detail", 400,
                  [success |-> FALSE, code |-> 400])
    ELSE LET book == get_book_by_id(book_id)
         IN Response("/api/books/detail", 404,
                     IF BookFound(book)
                     THEN [success |-> TRUE, code |-> 200, data |-> book]
                     ELSE [success |-> FALSE, code |-> 404])

get_book_detail(book_id) ==
    /\ phase = "running"
    /\ req' = [route |-> "/api/books/detail", book_id |-> book_id]
    /\ resp' = get_book_detail_response(book_id)
    /\ UNCHANGED <<libraryVars, serviceVars, treeholeVars, bookVars, moodVars, loginVars, streakVars>>

(* Favourites *)

RequestUserIds == {None, "u1"}

(* data.get('user_id', 'anonymous') *)
user_id_of(u) == IF u = None THEN "anonymous" ELSE u

(* A check that forgets the book: SELECT 1 ... WHERE user_id = %s *)
is_favorited_any_book(user_id, book_id) ==
    \E p \in user_favorites : p[1] = user_id

(* BookDB.is_favorited: SELECT 1 ... WHERE user_id = %s AND book_id = %s   *)
is_favorited(user_id, book_id) == <<user_id, book_id>> \in user_favorites

(* BookDB.remove_favorite: DELETE ... WHERE user_id = %s AND book_id = %s  *)
remove_favorite(user_id, book_id) == user_favorites \ {<<user_id, book_id>>}

(* BookDB.add_favorite: INSERT IGNORE INTO user_favorites *)
add_favorite(user_id, book_id) == user_favorites \cup {<<user_id, book_id>>}

(* The last two entries of the history, with entry h appended. *)
Remember(h) ==
    LET all == Append(favorites_before, h)
    IN IF Len(all) > 2 THEN Tail(all) ELSE all

toggle_favorite(u, book_id) ==
    LET user_id == user_id_of(u)
    IN /\ phase = "running"
       /\ req' = [route |-> "/api/books/favorite", user_id |-> u,
                  book_id |-> book_id]
       /\ IF Falsy(book_id)
          THEN /\ resp' = Response("/api/books/favorite", 400,
                                   [success |-> FALSE, code |-> 400])
               /\ user_favorites' = user_favorites
               /\ favorites_before' =
                     Remember([user_id |-> user_id, book_id |-> 0, http |-> 400,
                               before |-> user_favorites])
          ELSE /\ IF is_favorited(user_id, book_id.int)
                  THEN /\ user_favorites' = remove_favorite(user_id, book_id.int)
                       /\ resp' = Response("/api/books/favorite", 200,
                                [success |-> TRUE, code |-> 200,
                                 data |-> [favorited |-> FALSE, action |-> "removed"]])
                  ELSE /\ user_favorites' = add_favorite(user_id, book_id.int)
                       /\ resp' = Response("/api/books/favorite", 200,
                                [success |-> TRUE, code |-> 200,
                                 data |-> [favorited |-> TRUE, action |-> "added"]])
               /\ favorites_before' =
                     Remember([user_id |-> user_id, book_id |-> book_id.int,
                               http |-> 200, before |-> user_favorites])
       /\ UNCHANGED <<libraryVars, serviceVars, treeholeVars, books, moodVars, loginVars,
                      streakVars>>

NextBooks ==
    \/ \E f \in InitFailures : init_services(f)
    \/ \E d \in AddBookBodies : add_book(d)
    \/ \E b \in BookIds : get_book_detail(b)

NextFavorites ==
    \/ \E f \in InitFailures : init_services(f)
    \/ \E u \in RequestUserIds, b \in BookIds : toggle_favorite(u, b)

----------------------------------------------------------------------------
(* Numbers in request bodies, and Python's int().                          *)

(* A field the body lacks, and a JSON number with a fractional part: the   *)
(* float t / 10 (37 is 3.7, -5 is -0.5).                                   *)
Absent == [absent |-> TRUE]
JsonFloat(t) == [float |-> t]

IsAbsent(v) == "absent" \in DOMAIN v
IsFloat(v) == "float" \in DOMAIN v

(* dict.get(key, default) *)
get(v, default) == IF IsAbsent(v) THEN default ELSE v

Digits == <<"0", "1", "2", "3", "4", "5", "6", "7", "8", "9">>
IsDigit(c) == \E i \in 1..Len(Digits) : Digits[i] = c
DigitValue(c) == (CHOOSE i \in 1..Len(Digits) : Digits[i] = c) - 1

RECURSIVE DigitsValue(_)
DigitsValue(s) ==
    IF s = <<>> THEN 0
    ELSE DigitsValue(SubSeq(s, 1, Len(s) - 1)) * 10 + DigitValue(s[Len(s)])

(* int(str): surrounding whitespace is dropped, then an optional sign and  *)
(* one or more decimal digits; anything else is a ValueError.              *)
ParseInt(s) ==
    LET t == strip(s)
        negative == t # <<>> /\ Head(t) = "-"
        signed == t # <<>> /\ Head(t) \in {"-", "+"}
        digits == IF signed THEN Tail(t) ELSE t
    IN IF digits # <<>> /\ \A i \in 1..Len(digits) : IsDigit(digits[i])
       THEN [int |-> IF negative THEN 0 - DigitsValue(digits)
                     ELSE DigitsValue(digits)]
       ELSE [error |-> "ValueError"]

(* float -> int truncates toward zero. *)
Truncate(t) == IF t >= 0 THEN t \div 10 ELSE 0 - ((0 - t) \div 10)

(* int(v): an int is itself, a float is truncated toward zero, a string is *)
(* parsed, None is a TypeError.                                            *)
py_int(v) ==
    IF IsInt(v) THEN [int |-> v.int]
    ELSE IF IsFloat(v) THEN [int |-> Truncate(v.float)]
    ELSE IF IsStr(v) THEN ParseInt(v.str)
    ELSE [error |-> "TypeError"]

Raised(r) == "error" \in DOMAIN r

----------------------------------------------------------------------------
(* Mood and breath check-ins                                               *)

(* _get_user: the first truthy of user, login_name, username, or "guest".  *)
_get_user(data) ==
    IF data.user \notin {None, ""} THEN data.user
    ELSE IF data.login_name \notin {None, ""} THEN data.login_name
    ELSE IF data.username \notin {None, ""} THEN data.username
    ELSE "guest"

RequestUsers ==
    {[user |-> None, login_name |-> None, username |-> None],
     [user |-> "", login_name |-> "u1", username |-> None]}

SnapshotTables == [mood |-> mood_checkins, breath |-> breath_trainings]

(* datetime.date.today() moves on. *)
next_day ==
    /\ phase = "running"
    /\ today < MaxDay
    /\ today' = today + 1
    /\ UNCHANGED <<libraryVars, serviceVars, treeholeVars, bookVars, mood_checkins,
                   breath_trainings, checkins_before, loginVars, streakVars,
                   req, resp>>

MoodKeys == {None, "", "happy"}

IntensityValues ==
    {Absent, JsonNull, JsonInt(0), JsonInt(15), JsonFloat(37),
     JsonStr(<<"1", ".">>)}

(* max(1, min(n, 10)) *)
clamp_intensity(n) ==
    LET low == IF n < 10 THEN n ELSE 10
    IN IF low > 1 THEN low ELSE 1

(* INSERT ... ON DUPLICATE KEY UPDATE on the key (user_name, checkin_date): *)
(* a row with the key takes the new values, otherwise the row is inserted. *)
mood_upsert(row) ==
    IF \E r \in mood_checkins :
          r.user_name = row.user_name /\ r.checkin_date = row.checkin_date
    THEN {IF r.user_name = row.user_name /\ r.checkin_date = row.checkin_date
          THEN row ELSE r : r \in mood_checkins}
    ELSE mood_checkins \cup {row}

mood_checkin(data, mood_key, intensity) ==
    LET user == _get_user(data)
        n == py_int(get(intensity, JsonInt(5)))
    IN /\ phase = "running"
       /\ req' = [route |-> "/api/mood/checkin", user |-> user,
                  mood_key |-> mood_key, intensity |-> intensity, date |-> today]
       /\ checkins_before' = SnapshotTables
       /\ IF mood_key \in {None, ""}
          THEN /\ resp' = Response("/api/mood/checkin", 400, [code |-> 400])
               /\ UNCHANGED mood_checkins
          ELSE IF Raised(n)
          THEN /\ resp' = Response("/api/mood/checkin", 400, [code |-> 400])
               /\ UNCHANGED mood_checkins
          ELSE /\ mood_checkins' =
                     mood_upsert([user_name |-> user, checkin_date |-> today,
                                  mood_key |-> mood_key,
                                  intensity |-> clamp_intensity(n.int),
                                  score |-> clamp_intensity(n.int)])
               /\ resp' = Response("/api/mood/checkin", 200,
                                   [code |-> 200, data |-> [user |-> user,
                                                           checkin_date |-> today]])
       /\ UNCHANGED <<libraryVars, serviceVars, treeholeVars, bookVars, today,
                      breath_trainings, loginVars, streakVars>>

(* The (mode_key, mode_name) pairs of a breath request. *)
Modes == {<<None, "Box">>, <<"box", None>>, <<"box", "Box">>, <<"calm", "Calm">>}

DurationValues ==
    {Absent, JsonInt(-1), JsonInt(1), JsonFloat(-5), JsonStr(<<"1", ".">>)}

CycleValues == {Absent, JsonInt(-1), JsonInt(1)}

(* The value a request field carries, in tenths. *)
Tenths(v) ==
    IF IsInt(v) THEN 10 * v.int
    ELSE IF IsFloat(v) THEN v.float
    ELSE 10 * ParseInt(v.str).int

BreathRow(user, date) ==
    {r \in breath_trainings : r.user_name = user /\ r.training_date = date}

(* INSERT ... ON DUPLICATE KEY UPDATE on the key (user_name, training_date): *)
(* the mode is replaced, the duration and the cycles are added.            *)
breath_upsert(row) ==
    IF BreathRow(row.user_name, row.training_date) # {}
    THEN {IF r.user_name = row.user_name /\ r.training_date = row.training_date
          THEN [r EXCEPT !.mode_key = row.mode_key,
                         !.mode_name = row.mode_name,
                         !.duration_seconds = @ + row.duration_seconds,
                         !.completed_cycles = @ + row.completed_cycles]
          ELSE r : r \in breath_trainings}
    ELSE breath_trainings \cup {row}

breath_checkin_create_or_update(data, mode_key, mode_name, duration, cycles) ==
    LET user == _get_user(data)
        duration_seconds == py_int(get(duration, JsonInt(0)))
        completed_cycles == py_int(get(cycles, JsonInt(0)))
        accepted == /\ mode_key \notin {None, ""}
                    /\ mode_name \notin {None, ""}
                    /\ ~Raised(duration_seconds) /\ ~Raised(completed_cycles)
                    /\ duration_seconds.int >= 0 /\ completed_cycles.int >= 0
        new == breath_upsert([user_name |-> user, training_date |-> today,
                              mode_key |-> mode_key, mode_name |-> mode_name,
                              duration_seconds |-> duration_seconds.int,
                              completed_cycles |-> completed_cycles.int])
    IN /\ phase = "running"
       /\ accepted => \A r \in new : /\ r.duration_seconds <= MaxTotal
                                     /\ r.completed_cycles <= MaxTotal
       /\ req' = [route |-> "/api/breath/checkin", user |-> user,
                  mode_key |-> mode_key, mode_name |-> mode_name,
                  duration |-> duration, cycles |-> cycles, date |-> today]
       /\ checkins_before' = SnapshotTables
       /\ IF accepted
          THEN /\ breath_trainings' = new
               /\ resp' = Response("/api/breath/checkin", 200,
                                   [code |-> 200, data |-> [user |-> user,
                                                           training_date |-> today]])
          ELSE /\ resp' = Response("/api/breath/checkin", 400, [code |-> 400])
               /\ UNCHANGED breath_trainings
       /\ UNCHANGED <<libraryVars, serviceVars, treeholeVars, bookVars, today, mood_checkins,
                      loginVars, streakVars>>

----------------------------------------------------------------------------
(* Continuous check-in days                                                *)

(* The entries a dates list can hold: a date, a datetime on a day, a       *)
(* string, None.  A string is given by what its first ten characters       *)
(* spell: <<d>> when they are the ISO date of day d ('2024-05-01',         *)
(* '2024-05-01 08:00:00'), <<>> when strptime rejects them.                *)
DateOf(d) == [date |-> d]
DateTimeOf(d) == [datetime |-> d]
DateStr(s) == [str |-> s]

StreakDays == (0 - 2)..1

DateEntries ==
    {DateOf(d) : d \in StreakDays}
    \cup {DateTimeOf(0), DateTimeOf(0 - 1)}
    \cup {DateStr(<<0>>), DateStr(<<0 - 1>>), DateStr(<<>>)}
    \cup {JsonNull}

(* _to_date: the date of an entry, or None. *)
_to_date(x) ==
    IF IsNull(x) THEN JsonNull
    ELSE IF "datetime" \in DOMAIN x THEN DateOf(x.datetime)
    ELSE IF "date" \in DOMAIN x THEN x
    ELSE IF Len(x.str) = 1 THEN DateOf(x.str[1])
    ELSE JsonNull

(* The set the loop over dates_desc builds. *)
date_set(dates_desc) ==
    {_to_date(dates_desc[i]).date :
        i \in {j \in 1..Len(dates_desc) : ~IsNull(_to_date(dates_desc[j]))}}

(* while cur in date_set: continuous += 1; cur -= one day *)
RECURSIVE count_back(_, _)
count_back(dates, cur) ==
    IF cur \in dates THEN 1 + count_back(dates, cur - 1) ELSE 0

(* The same loop started at the latest date of the set instead of today. *)
calc_continuous_days_from_latest(dates_desc) ==
    LET dates == date_set(dates_desc)
    IN IF dates = {} THEN 0
       ELSE count_back(dates, CHOOSE d \in dates : \A e \in dates : e <= d)

calc_continuous_days(dates_desc) ==
    IF dates_desc = <<>> THEN 0
    ELSE count_back(date_set(dates_desc), today)

StreakInputs == UNION {[1..n -> DateEntries] : n \in 0..MaxDates}

NotRun == [run |-> FALSE]

(* One call of calc_continuous_days on the list drawn at the start. *)
call_calc_continuous_days ==
    /\ streak_result = NotRun
    /\ streak_result' = [run |-> TRUE, days |-> calc_continuous_days(streak_input)]
    /\ UNCHANGED <<libraryVars, serviceVars, treeholeVars, bookVars, moodVars, loginVars,
                   streak_input, req, resp>>

(* ORDER BY checkin_date DESC: the dates of a set of days, latest first. *)
RECURSIVE dates_desc_of(_)
dates_desc_of(days) ==
    IF days = {} THEN <<>>
    ELSE LET latest == CHOOSE d \in days : \A e \in days : e <= d
         IN <<DateOf(latest)>> \o dates_desc_of(days \ {latest})

(* GET /api/mood/stats *)
mood_stats(data) ==
    LET user == _get_user(data)
        rows == {r \in mood_checkins : r.user_name = user}
        date_rows == dates_desc_of({r.checkin_date : r \in rows})
    IN /\ phase = "running"
       /\ req' = [route |-> "/api/mood/stats", user |-> user, date |-> today]
       /\ resp' = Response("/api/mood/stats", 200,
                           [code |-> 200,
                            data |-> [continuousDays |-> calc_continuous_days(date_rows),
                                      totalDays |-> Cardinality(rows)]])
       /\ UNCHANGED <<libraryVars, serviceVars, treeholeVars, bookVars, moodVars, loginVars,
                      streak_input, streak_result>>

----------------------------------------------------------------------------
(* POST /api/register                                                      *)

Accounts == {None, "a", "b"}
Emails == {None, "x", "y"}

(* SELECT 1 FROM test.login WHERE login_name = %s: a comparison with NULL  *)
(* (a field the body lacks) is never true.                                 *)
AccountExists(acc, email) ==
    \E i \in 1..Len(login) : acc # None /\ login[i].login_name = acc

(* SELECT 1 FROM test.login WHERE login_name = %s OR email = %s LIMIT 1 *)
AccountOrEmailExists(acc, email) ==
    \E i \in 1..Len(login) :
        \/ acc # None /\ login[i].login_name = acc
        \/ email # None /\ login[i].email = email

register(acc, email) ==
    /\ phase = "running"
    /\ Len(login) < MaxLogins
    /\ req' = [route |-> "/api/register", account |-> acc, email |-> email]
    /\ login_before' = login
    /\ IF AccountOrEmailExists(acc, email)
       THEN /\ resp' = Response("/api/register", 200, [code |-> 201])
            /\ UNCHANGED login
       ELSE /\ login' = Append(login, [login_name |-> acc, email |-> email])
            /\ resp' = Response("/api/register", 200, [code |-> 200])
    /\ UNCHANGED <<libraryVars, serviceVars, treeholeVars, bookVars, moodVars,
                   streak_input, streak_result>>

----------------------------------------------------------------------------
(* External steps of one operation invocation: what is attempted, how     *)
(* often, and what follows a failure.                                      *)

Attempt(step, how, ok) == [step |-> step, how |-> how, ok |-> ok]

(* BlenderBotManager.load_model: from_pretrained with local_files_only=True *)
(* and, when that raises, once more with local_files_only=False.           *)
(* The result of test_model is logged and does not change what is         *)
(* returned.                                                               *)
LoadEnvs ==
    [path_exists : BOOLEAN, tokenizer_local : BOOLEAN,
     tokenizer_remote : BOOLEAN, model_local : BOOLEAN, model_remote : BOOLEAN,
     test : BOOLEAN]

load_tokenizer(e) ==
    IF e.tokenizer_local THEN <<Attempt("tokenizer", "local_files_only", TRUE)>>
    ELSE <<Attempt("tokenizer", "local_files_only", FALSE),
           Attempt("tokenizer", "remote", e.tokenizer_remote)>>

load_seq2seq(e) ==
    IF e.model_local THEN <<Attempt("model", "local_files_only", TRUE)>>
    ELSE <<Attempt("model", "local_files_only", FALSE),
           Attempt("model", "remote", e.model_remote)>>

Succeeded(log) == log[Len(log)].ok

load_model_attempts(e) ==
    IF ~e.path_exists THEN <<>>
    ELSE IF ~Succeeded(load_tokenizer(e)) THEN load_tokenizer(e)
    ELSE load_tokenizer(e) \o load_seq2seq(e)

load_model_returns(e) ==
    /\ e.path_exists
    /\ Succeeded(load_tokenizer(e))
    /\ Succeeded(load_seq2seq(e))

load_model(e) ==
    /\ invocation' = [op |-> "load_model", env |-> e]
    /\ attempts' = load_model_attempts(e)
    /\ op_result' = [returned |-> load_model_returns(e)]
    /\ UNCHANGED <<appVars, convVars, preprocessVars>>

(* convert_audio_with_ffmpeg_python: method 1 through the ffmpeg-python    *)
(* library, then method 2 through a subprocess, which runs whether method  *)
(* 1 succeeded or failed; only a missing library ends the call before it.  *)
ConvertEnvs ==
    [installed : BOOLEAN, exists : BOOLEAN,
     method1 : {"ok", "fail", "import_error"},
     method2 : {"ok", "fail", "timeout"}, pcm : {"data", "empty", "missing"}]

convert_attempts(e) ==
    IF ~e.installed \/ ~e.exists \/ e.method1 = "import_error" THEN <<>>
    ELSE <<Attempt("ffmpeg", "ffmpeg-python", e.method1 = "ok"),
           Attempt("ffmpeg", "subprocess", e.method2 = "ok")>>

call_convert_audio_with_ffmpeg_python(e) ==
    /\ invocation' = [op |-> "convert_audio_with_ffmpeg_python", env |-> e]
    /\ attempts' = convert_attempts(e)
    /\ op_result' = [returned |-> convert_audio_with_ffmpeg_python(e)]
    /\ UNCHANGED <<appVars, convVars, preprocessVars>>

(* EmotionEngine.analyze: rules, then translation and the model, then the  *)
(* keyword fallback when translation or prediction gave nothing.           *)
AnalyzeEnvs ==
    [text : Texts, rule : BOOLEAN, translation_service : BOOLEAN,
     translate : {"ok", "error", "timeout"}, predict : BOOLEAN]

(* TranslationService.translate: one GET, None for blank text or failure.  *)
translate_attempts(e) ==
    IF strip(e.text) = <<>> THEN <<>>
    ELSE <<Attempt("translate", "GET", e.translate = "ok")>>

translated(e) ==
    /\ e.translation_service
    /\ translate_attempts(e) # <<>>
    /\ Succeeded(translate_attempts(e))

analyze_attempts(e) ==
    IF e.rule THEN <<>>
    ELSE IF ~e.translation_service THEN <<>>
    ELSE IF ~translated(e) THEN translate_attempts(e)
    ELSE translate_attempts(e) \o <<Attempt("predict", "model", e.predict)>>

analyze_source(e) ==
    IF e.rule THEN "rule"
    ELSE IF translated(e) /\ e.predict THEN "model"
    ELSE "fallback"

analyze(e) ==
    /\ invocation' = [op |-> "analyze", env |-> e]
    /\ attempts' = analyze_attempts(e)
    /\ op_result' = [returned |-> analyze_source(e)]
    /\ UNCHANGED <<appVars, convVars, preprocessVars>>

(* DBHelper.query: cursor.execute once; an exception propagates after the  *)
(* cursor and connection are closed.                                       *)
QueryEnvs == [execute : BOOLEAN, select : BOOLEAN]

query_attempts_retrying(e) ==
    IF e.execute THEN <<Attempt("statement", "execute", TRUE)>>
    ELSE <<Attempt("statement", "execute", FALSE),
           Attempt("statement", "execute", FALSE)>>

query_attempts(e) == <<Attempt("statement", "execute", e.execute)>>

query(e) ==
    /\ invocation' = [op |-> "query", env |-> e]
    /\ attempts' = query_attempts(e)
    /\ op_result' = [returned |-> IF ~e.execute THEN "raise"
                                ELSE IF e.select THEN "rows" ELSE "rowcount"]
    /\ UNCHANGED <<appVars, convVars, preprocessVars>>

NoInvocation == [op |-> None]

InitSteps ==
    /\ invocation = NoInvocation
    /\ attempts = <<>>
    /\ op_result = [returned |-> None]

----------------------------------------------------------------------------
(* Batch preprocessing of one split (DeepFER/scripts/preprocess.py)       *)

Labels == {0, 1}

(* What happens to a file in the worker: it is processed, cv2.imread       *)
(* returns None, or feature extraction raises.                             *)
Outcomes == {"ok", "unreadable", "raises"}

(* The task lists of a split: task i is file i with its mapped label.      *)
TaskLists ==
    UNION {[1..n -> [label : Labels, outcome : Outcomes]] : n \in 0..MaxTasks}

img_path(i) == i

NotSaved == [saved |-> FALSE]

(* process_single_image((img_path, label)) *)
process_single_image(path, label, outcome) ==
    IF outcome = "unreadable" THEN JsonNull
    ELSE IF outcome = "raises" THEN JsonNull
    ELSE [img |-> [tensor_of |-> path], feat |-> [vector_of |-> path],
          label |-> label]

(* The pool hands the next task of the list to a worker process. *)
worker_start ==
    /\ saved = NotSaved
    /\ started < Len(tasks)
    /\ started' = started + 1
    /\ UNCHANGED <<appVars, convVars, stepVars, tasks, completed, results, saved>>

(* A worker finishes its task; workers finish in any order. *)
worker_finish(i) ==
    /\ saved = NotSaved
    /\ i \in 1..started
    /\ i \notin DOMAIN results
    /\ results' = (i :> process_single_image(img_path(i), tasks[i].label,
                                             tasks[i].outcome)) @@ results
    /\ completed' = Append(completed, i)
    /\ UNCHANGED <<appVars, convVars, stepVars, tasks, started, saved>>

(* as_completed: the results in the order the workers finished. *)
executor_as_completed(task_list) ==
    [k \in 1..Len(task_list) |-> results[completed[k]]]

(* executor.map: the results in the order of the task list. *)
executor_map(task_list) == [i \in 1..Len(task_list) |-> results[i]]

(* for res in results: if res is not None: append *)
RECURSIVE filter_results(_)
filter_results(rs) ==
    IF rs = <<>> THEN <<>>
    ELSE IF IsNull(Head(rs)) THEN filter_results(Tail(rs))
    ELSE <<Head(rs)>> \o filter_results(Tail(rs))

(* list(executor.map(...)) returns when every task is done; the results    *)
(* are filtered and the three arrays saved.                                *)
save_split ==
    /\ saved = NotSaved
    /\ Len(completed) = Len(tasks)
    /\ LET kept == filter_results(executor_map(tasks))
       IN saved' = [saved |-> TRUE,
                    X_img |-> [k \in 1..Len(kept) |-> kept[k].img],
                    X_feat |-> [k \in 1..Len(kept) |-> kept[k].feat],
                    Y |-> [k \in 1..Len(kept) |-> kept[k].label]]
    /\ UNCHANGED <<appVars, convVars, stepVars, tasks, started, completed, results>>

InitPreprocess(task_list) ==
    /\ tasks = task_list
    /\ started = 0
    /\ completed = <<>>
    /\ results = <<>>
    /\ saved = NotSaved

----------------------------------------------------------------------------
(* ConversationManager (conversation_manager.py)                           *)

DEFAULT_MAX_HISTORY == 5

MaxHistories == 0..MaxHistory
UserInputs == {"a", "b"}
UserEmotions == {None, "happy"}

(* seq[start:] for a start <= 0: -0 is 0, so the slice from -0 is the      *)
(* whole list; a start below -len is the whole list too.                   *)
slice_from(seq, start) ==
    LET n == Len(seq)
        first == IF start < 0
                 THEN (IF n + start > 0 THEN n + start ELSE 0)
                 ELSE start
    IN SubSeq(seq, first + 1, n)

SessionIds == {None, "s1"}

(* session_id or f"session_{int(time.time())}" *)
session_id_or_default(sid) == IF sid = None THEN "session_time" ELSE sid

(* ConversationManager.__init__ *)
__init__(mh) ==
    /\ max_history = mh
    /\ session_id = session_id_or_default(None)
    /\ history = <<>>
    /\ turn_count = 0
    /\ emotion_trend = <<>>
    /\ exchanges_added = <<>>

add_exchange(user_input, emotion) ==
    LET exchange == [user |-> [text |-> user_input, emotion |-> emotion]]
        appended == Append(history, exchange)
        trend == Append(emotion_trend, emotion)
    IN /\ turn_count < MaxTurns
       /\ turn_count' = turn_count + 1
       /\ emotion_trend' =
              IF emotion = None THEN emotion_trend
              ELSE IF Len(trend) > 10 THEN slice_from(trend, 0 - 10)
              ELSE trend
       /\ history' =
              IF Len(appended) > max_history
              THEN slice_from(appended, 0 - max_history)
              ELSE appended
       /\ exchanges_added' = Append(exchanges_added, exchange)
       /\ UNCHANGED <<appVars, preprocessVars, stepVars, max_history, session_id>>

reset(new_session_id) ==
    /\ session_id' = session_id_or_default(new_session_id)
    /\ history' = <<>>
    /\ turn_count' = 0
    /\ emotion_trend' = <<>>
    /\ exchanges_added' = <<>>
    /\ UNCHANGED <<appVars, preprocessVars, stepVars, max_history>>

----------------------------------------------------------------------------
(* The state after start-up, and the specifications: requests are handled  *)
(* one at a time.                                                          *)

InitApp ==
    /\ phase = "boot"
    /\ emotion_engine = None
    /\ blenderbot_model = None
    /\ chat_engine = None
    /\ speech_client = TRUE
    /\ treehole_posts = <<>>
    /\ treehole_comments = <<>>
    /\ books = <<>>
    /\ user_favorites = {}
    /\ favorites_before = <<>>
    /\ today = 0
    /\ mood_checkins = {}
    /\ breath_trainings = {}
    /\ checkins_before = [mood |-> {}, breath |-> {}]
    /\ login = <<>>
    /\ login_before = <<>>
    /\ streak_result = NotRun
    /\ req = NoRequest
    /\ resp = NoResponse

InitLibrary ==
    __init__(DEFAULT_MAX_HISTORY) /\ InitPreprocess(<<>>) /\ InitSteps

Init == InitApp /\ streak_input = <<>> /\ InitLibrary

(* A call of calc_continuous_days on any list of entries. *)
InitStreak == InitApp /\ streak_input \in StreakInputs /\ InitLibrary

(* A ConversationManager built with any max_history. *)
InitConversation ==
    /\ InitApp
    /\ streak_input = <<>>
    /\ \E mh \in MaxHistories : __init__(mh)
    /\ InitPreprocess(<<>>)
    /\ InitSteps

(* preprocess_rafdb on any task list. *)
InitPreprocessSplit ==
    /\ InitApp
    /\ streak_input = <<>>
    /\ __init__(DEFAULT_MAX_HISTORY)
    /\ \E t \in TaskLists : InitPreprocess(t)
    /\ InitSteps

NextChat ==
    \/ \E f \in InitFailures : init_services(f)
    \/ \E d \in ChatBodies, e \in ChatEnvs : chat(d, e)

SpecChat == Init /\ [][NextChat]_vars

NextVoice ==
    \/ \E f \in InitFailures : init_services(f)
    \/ \E e \in VoiceEnvs : analyze_voice(e)

SpecVoice == Init /\ [][NextVoice]_vars

NextTreehole ==
    \/ \E f \in InitFailures : init_services(f)
    \/ \E c \in JsonTexts : create_post(c)
    \/ \E p \in PostIds, c \in JsonTexts : create_comment(p, c)
    \/ \E p \in PostIds, r \in BOOLEAN : auto_comment_post(p, r)

SpecTreehole == Init /\ [][NextTreehole]_vars
SpecBooks == Init /\ [][NextBooks]_vars

SpecFavorites == Init /\ [][NextFavorites]_vars

NextMood ==
    \/ \E f \in InitFailures : init_services(f)
    \/ next_day
    \/ \E d \in RequestUsers, k \in MoodKeys, i \in IntensityValues :
          mood_checkin(d, k, i)
    \/ \E d \in RequestUsers : mood_stats(d)

SpecMood == Init /\ [][NextMood]_vars

NextBreath ==
    \/ \E f \in InitFailures : init_services(f)
    \/ \E d \in RequestUsers, m \in Modes, s \in DurationValues,
          c \in CycleValues :
          breath_checkin_create_or_update(d, m[1], m[2], s, c)

SpecBreath == Init /\ [][NextBreath]_vars

NextRegister ==
    \/ \E f \in InitFailures : init_services(f)
    \/ \E a \in Accounts, e \in Emails : register(a, e)

SpecRegister == Init /\ [][NextRegister]_vars

NextStreak == call_calc_continuous_days

SpecStreak == InitStreak /\ [][NextStreak]_vars

NextConversation ==
    \/ \E u \in UserInputs, e \in UserEmotions : add_exchange(u, e)
    \/ \E sid \in SessionIds : reset(sid)

SpecConversation == InitConversation /\ [][NextConversation]_vars

NextPreprocess ==
    \/ worker_start
    \/ \E i \in 1..MaxTasks : worker_finish(i)
    \/ save_split

SpecPreprocess == InitPreprocessSplit /\ [][NextPreprocess]_vars

NextSteps ==
    \/ \E e \in LoadEnvs : load_model(e)
    \/ \E e \in ConvertEnvs : call_convert_audio_with_ffmpeg_python(e)
    \/ \E e \in AnalyzeEnvs : analyze(e)
    \/ \E e \in QueryEnvs : query(e)

SpecSteps == Init /\ [][NextSteps]_vars

----------------------------------------------------------------------------
(* Properties *)

(* C1: with the services initialised, a POST to /chat/reply whose JSON     *)
(* body carries the text in the field `message` (and nothing else), with   *)
(* generation succeeding, is answered with success = true and a body that  *)
(* contains `emotion` and `reply`.                                         *)
ChatAcceptsMessageField ==
    (/\ resp.route = "/chat/reply"
     /\ emotion_engine # None /\ blenderbot_model # None
     /\ DOMAIN req.data = {"message"}
     /\ strip(req.data["message"]) # <<>>
     /\ req.env.generate = "ok")
    => (/\ resp.http = 200
        /\ resp.body.success = TRUE
        /\ {"emotion", "reply"} \subseteq DOMAIN resp.body)

(* C2: in /api/analyze_voice every failure of speech recognition (missing  *)
(* or unreadable file, conversion failure, SDK streaming failure) is       *)
(* answered with HTTP 500 and code 500, and code 200 is returned only when *)
(* recognition ran to completion on the uploaded audio.                    *)
VoiceFailureIs500 ==
    (resp.route = "/api/analyze_voice" /\ req.env.has_file)
    => LET e == req.env
           failed == \/ ~e.exists
                     \/ ~e.readable
                     \/ convert_audio_with_ffmpeg_python(e) = "raise"
                     \/ e.stream = "raise"
       IN /\ failed => (resp.http = 500 /\ resp.body.code = 500)
          /\ resp.body.code = 200 => ~failed

(* C3: /api/books/detail answers HTTP 200 with body code 200 and the book  *)
(* whenever the requested book exists, HTTP 404 with body code 404 only    *)
(* when no book has that id, and HTTP 400 when book_id is missing.         *)
BookDetailStatus ==
    resp.route = "/api/books/detail"
    => LET book == get_book_by_id(req.book_id)
       IN /\ BookFound(book) =>
                (resp.http = 200 /\ resp.body.code = 200 /\ resp.body.data = book)
          /\ resp.http = 404 => (~BookFound(book) /\ resp.body.code = 404)
          /\ IsNull(req.book_id) => resp.http = 400

(* C4: the id returned by a successful add is the primary key of the row   *)
(* just inserted: it is the newest row's id, and get_book_by_id of it      *)
(* yields the book that was added.                                         *)
AddBookReturnsInsertedId ==
    (resp.route = "/api/admin/books/add" /\ resp.body.success)
    => /\ resp.body.data.id = Len(books)
       /\ get_book_by_id(JsonInt(resp.body.data.id)).book.title = req.data["title"]

(* C5: once the server is running, /api/posts/auto_comment for an existing *)
(* post returns code 200 with the reply, having inserted a comment by the  *)
(* AI assistant for that post; for a post that does not exist it returns   *)
(* 404.                                                                    *)
AutoCommentExistingPost ==
    (resp.route = "/api/posts/auto_comment" /\ phase = "running"
     /\ ~Falsy(req.post_id))
    => IF PostExists(req.post_id)
       THEN /\ resp.http = 200 /\ resp.body.code = 200
            /\ \E i \in 1..Len(treehole_comments) :
                  /\ treehole_comments[i].post_id = req.post_id
                  /\ treehole_comments[i].anonymous_name = AI_NAME
       ELSE resp.http = 404 /\ resp.body.code = 404

(* C8: for favourite requests handled one at a time, each accepted request *)
(* flips whether (user_id, book_id) is in user_favorites and leaves every  *)
(* other pair alone, the `favorited` flag of the response is the           *)
(* membership after the request, and two successive toggles of the same    *)
(* pair restore the favourites set there was before the first.             *)
FavoriteToggleFlips ==
    LET n == Len(favorites_before)
    IN /\ (n > 0 /\ favorites_before[n].http = 200)
          => LET h == favorites_before[n]
                 pair == <<h.user_id, h.book_id>>
             IN /\ (pair \in user_favorites) = (pair \notin h.before)
                /\ user_favorites \ {pair} = h.before \ {pair}
                /\ resp.body.data.favorited = (pair \in user_favorites)
       /\ (/\ n = 2
           /\ favorites_before[1].http = 200 /\ favorites_before[2].http = 200
           /\ favorites_before[1].user_id = favorites_before[2].user_id
           /\ favorites_before[1].book_id = favorites_before[2].book_id)
          => user_favorites = favorites_before[1].before

(* A pair is added and then removed again, other favourites being present. *)
FavoriteToggledTwice ==
    /\ Len(favorites_before) = 2
    /\ favorites_before[1].http = 200 /\ favorites_before[2].http = 200
    /\ favorites_before[1].user_id = favorites_before[2].user_id
    /\ favorites_before[1].book_id = favorites_before[2].book_id
    /\ resp.route = "/api/books/favorite"
    /\ resp.body.code = 200
    /\ resp.body.data.action = "removed"
    /\ user_favorites # {}

(* C6: with mood_checkins keyed on (user, date): there is at most one row  *)
(* per user per day, its intensity and score are equal and lie in 1..10,   *)
(* and the last check-in request was answered accordingly: with a           *)
(* mood_key and an integer intensity (or none: the default) it was         *)
(* accepted and the user's row of that day holds its values; without a     *)
(* mood_key or with a non-integer intensity it got 400 and the table is    *)
(* what it was before.                                                     *)
MoodCheckinContract ==
    /\ \A r1, r2 \in mood_checkins :
          (r1.user_name = r2.user_name /\ r1.checkin_date = r2.checkin_date)
          => r1 = r2
    /\ \A r \in mood_checkins : r.intensity = r.score /\ r.intensity \in 1..10
    /\ resp.route = "/api/mood/checkin"
       => LET v == req.intensity
              integer == \/ IsAbsent(v)
                         \/ IsInt(v)
                         \/ IsStr(v) /\ ~Raised(ParseInt(v.str))
              valid == req.mood_key \notin {None, ""} /\ integer
          IN IF valid
             THEN /\ resp.http = 200
                  /\ \E r \in mood_checkins :
                        /\ r.user_name = req.user /\ r.checkin_date = req.date
                        /\ r.mood_key = req.mood_key
                        /\ r.intensity
                              = clamp_intensity(py_int(get(v, JsonInt(5))).int)
             ELSE /\ resp.http = 400
                  /\ mood_checkins = checkins_before.mood

(* C7: the duration and the cycles of a breath row are never negative, and *)
(* the last breath request was answered accordingly: with both mode       *)
(* fields and non-negative integer duration and cycles it was accepted,    *)
(* the user's row of that day has its mode and the duration and cycles it  *)
(* had before plus those of the request; with a negative or non-integer    *)
(* duration or cycle count, or without mode_key or mode_name, it got 400   *)
(* and the table is what it was before.                                    *)
BreathCheckinContract ==
    /\ \A r \in breath_trainings :
          r.duration_seconds >= 0 /\ r.completed_cycles >= 0
    /\ resp.route = "/api/breath/checkin"
       => LET NonNegativeInteger(v) ==
                  \/ IsAbsent(v)
                  \/ IsInt(v) /\ v.int >= 0
                  \/ IsStr(v) /\ ~Raised(ParseInt(v.str)) /\ ParseInt(v.str).int >= 0
              valid == /\ req.mode_key \notin {None, ""}
                       /\ req.mode_name \notin {None, ""}
                       /\ NonNegativeInteger(req.duration)
                       /\ NonNegativeInteger(req.cycles)
              Before(field) ==
                  LET old == {r \in checkins_before.breath :
                                  r.user_name = req.user /\ r.training_date = req.date}
                  IN IF old = {} THEN 0 ELSE (CHOOSE r \in old : TRUE)[field]
          IN IF valid
             THEN /\ resp.http = 200
                  /\ \E r \in breath_trainings :
                        /\ r.user_name = req.user /\ r.training_date = req.date
                        /\ r.mode_key = req.mode_key /\ r.mode_name = req.mode_name
                        /\ 10 * (r.duration_seconds - Before("duration_seconds"))
                              = Tenths(get(req.duration, JsonInt(0)))
                        /\ 10 * (r.completed_cycles - Before("completed_cycles"))
                              = Tenths(get(req.cycles, JsonInt(0)))
             ELSE /\ resp.http = 400
                  /\ breath_trainings = checkins_before.breath

(* C9: for register requests handled one at a time, a request whose        *)
(* account is the login_name of a row, or whose email is the email of a    *)
(* row, returns code 201 and inserts nothing, and no two login rows have   *)
(* the same login_name or the same email.  A field the request lacks is    *)
(* stored as NULL, which is no value: it equals none and is shared by none. *)
RegisterKeepsAccountsUnique ==
    /\ \A i, j \in 1..Len(login) :
          i < j => /\ login[i].login_name # None
                      => login[i].login_name # login[j].login_name
                   /\ login[i].email # None => login[i].email # login[j].email
    /\ resp.route = "/api/register"
       => LET taken == \E i \in 1..Len(login_before) :
                          \/ /\ req.account # None
                             /\ login_before[i].login_name = req.account
                          \/ /\ req.email # None
                             /\ login_before[i].email = req.email
          IN IF taken
             THEN resp.body.code = 201 /\ login = login_before
             ELSE resp.body.code = 200 /\ Len(login) = Len(login_before) + 1

(* A request with a new account and the email of an existing row is        *)
(* refused.                                                                *)
RegisterRefusedForEmail ==
    /\ resp.route = "/api/register"
    /\ resp.body.code = 201
    /\ Len(login) >= 2
    /\ req.account # None
    /\ \A i \in 1..Len(login) : login[i].login_name # req.account
    /\ \E i \in 1..Len(login) : login[i].email = req.email

(* C10: calc_continuous_days returns the largest k >= 0 such that today,   *)
(* today-1, ..., today-(k-1) all occur among the days the entries denote   *)
(* (entries that denote no day are ignored): 0 when today is absent, and   *)
(* the same for every reordering of the list and every repetition of an    *)
(* entry.                                                                  *)
StreakIsLongestRun ==
    streak_result.run
    => LET L == streak_input
           n == Len(L)
           Denotes(x, d) ==
               \/ "date" \in DOMAIN x /\ x.date = d
               \/ "datetime" \in DOMAIN x /\ x.datetime = d
               \/ "str" \in DOMAIN x /\ x.str = <<d>>
           days == {d \in StreakDays : \E i \in 1..n : Denotes(L[i], d)}
           RunOf(k) == \A i \in 0..(k - 1) : (today - i) \in days
           Swapped(i, j) ==
               [m \in 1..n |-> IF m = i THEN L[j] ELSE IF m = j THEN L[i] ELSE L[m]]
           k == streak_result.days
       IN /\ k >= 0
          /\ RunOf(k) /\ ~RunOf(k + 1)
          /\ today \notin days => k = 0
          /\ \A i, j \in 1..n : calc_continuous_days(Swapped(i, j)) = k
          /\ \A i \in 1..n : calc_continuous_days(Append(L, L[i])) = k

(* A list that is not in descending order, with an entry that denotes no   *)
(* day, today and yesterday: the streak is 2.                              *)
StreakOfTwoUnordered ==
    /\ streak_result.run
    /\ streak_result.days = 2
    /\ Len(streak_input) = 3
    /\ IsNull(_to_date(streak_input[1]))
    /\ _to_date(streak_input[2]) = DateOf(today - 1)
    /\ _to_date(streak_input[3]) = DateOf(today)

(* C11: max_history is the maximum number of history records: the history  *)
(* never holds more than max_history exchanges, and it is the most recent  *)
(* exchanges added since construction or reset, in the order added.        *)
HistoryWithinMaxHistory ==
    LET n == Len(exchanges_added)
        kept == IF n < max_history THEN n ELSE max_history
    IN /\ Len(history) <= max_history
       /\ history = SubSeq(exchanges_added, n - kept + 1, n)

(* C12: whatever order the workers finish in, the three arrays saved for a *)
(* split have the same length, the number of images processed              *)
(* successfully, and are index-aligned in task-list order: the k-th image, *)
(* the k-th feature vector and the k-th label all come from the k-th       *)
(* successfully processed task of the list; a failed image is in none.     *)
SavedArraysAligned ==
    saved.saved
    => LET ok == {i \in 1..Len(tasks) : tasks[i].outcome = "ok"}
           kth(k) == CHOOSE i \in ok :
                        Cardinality({j \in ok : j <= i}) = k
       IN /\ Len(saved.X_img) = Cardinality(ok)
          /\ Len(saved.X_feat) = Cardinality(ok)
          /\ Len(saved.Y) = Cardinality(ok)
          /\ \A k \in 1..Cardinality(ok) :
                /\ saved.X_img[k] = [tensor_of |-> img_path(kth(k))]
                /\ saved.X_feat[k] = [vector_of |-> img_path(kth(k))]
                /\ saved.Y[k] = tasks[kth(k)].label

(* Three tasks with different labels at the ends, the middle one failed,   *)
(* the last one finished first: the arrays were saved.                     *)
SavedAfterOutOfOrderFinish ==
    /\ saved.saved
    /\ Len(tasks) = 3
    /\ tasks[2].outcome # "ok"
    /\ tasks[1].outcome = "ok" /\ tasks[3].outcome = "ok"
    /\ tasks[1].label # tasks[3].label
    /\ completed[1] = 3
    /\ Len(saved.Y) = 2

====
